---- MODULE Spec2Model ----
(***************************************************************************)
(* Minesweeper (src/main.py): the rule engine of class Minesweeper, its    *)
(* power-ups and its achievement manager, as a state machine.              *)
(*                                                                         *)
(* A cell is <<x, y>>.  The 2-D boolean lists revealed[y][x] and           *)
(* flagged[y][x] are the sets of their True coordinates; grid[y][x] is the *)
(* function grid[<<x, y>>].  Time is counted in clock ticks of             *)
(* 1/TicksPerSecond seconds; time.time() is the variable now.  The board   *)
(* sizes and mine counts of Difficulty are scaled down (see the bounds).   *)
(***************************************************************************)
EXTENDS Integers, Sequences, FiniteSets, TLC

\* ------------------------------------------------------------ bounds
\* clock ticks per second: the resolution of time.time() in the model
TicksPerSecond == 2
\* the clock stops advancing at Epoch + MaxTime ticks
MaxTime == 4
\* largest single advance of the clock, in ticks
MaxStep == 3
\* clicks land on cells whose coordinates are below ClickSpan
ClickSpan == 3
\* random.sample draws its mines from the first MINES + SampleSlack positions
SampleSlack == 1
\* the charges of each power-up a save file of an earlier run holds
SavedCharges == 1
\* the board side and the mine count of each difficulty, standing for the
\* program's (8, 10), (15, 35) and (20, 80)
EasySize == 4
EasyMines == 2
MediumSize == 4
MediumMines == 3
HardSize == 5
HardMines == 3
\* at most MaxFlags cells are flagged at a time
MaxFlags == 1
\* the misplaced_flags list holds at most MaxMisplaced entries
MaxMisplaced == 1

\* ------------------------------------------------------------ constants
CELL_SIZE == 40
\* the value of an absent start_time / unlock_time
None == -1
\* float('inf'), the high score of a difficulty never won
Inf == -1

Max(a, b) == IF a >= b THEN a ELSE b
Min(a, b) == IF a <= b THEN a ELSE b

Difficulties == {"EASY", "MEDIUM", "HARD"}

\* Difficulty.value = (GRID_SIZE, MINES), scaled down by the bounds above,
\* which keep GRID_SIZE^2 - 9 >= MINES as the program's values do
\* (random.sample never lacks candidates).
DifficultyValue ==
  [EASY |-> <<EasySize, EasyMines>>, MEDIUM |-> <<MediumSize, MediumMines>>,
   HARD |-> <<HardSize, HardMines>>]

PowerUpNames == {"reveal", "freeze", "safety"}

\* pygame.K_1, K_2, K_3 as 1, 2, 3
PowerUpKey == [reveal |-> 1, freeze |-> 2, safety |-> 3]

\* PowerUp.duration in ticks; 0 stands for None (RevealAreaPowerUp)
Duration ==
  [reveal |-> 0, freeze |-> 5 * TicksPerSecond, safety |-> 10 * TicksPerSecond]

Themes == 0..2

AchievementNames ==
  {"first_win", "speed_demon", "combo_master", "perfectionist",
   "theme_explorer", "hard_victory"}

\* time.time() when the game object is built: more than the combo window
\* after 0, the initial last_reveal_time
Epoch == 2 * TicksPerSecond

Cells(N) == (0..(N - 1)) \X (0..(N - 1))

InGrid(N, c) == c[1] >= 0 /\ c[1] < N /\ c[2] >= 0 /\ c[2] < N

\* for dx in [-1, 0, 1]: for dy in [-1, 0, 1]
Offsets3 ==
  [i \in 1..9 |-> <<((i - 1) \div 3) - 1, ((i - 1) % 3) - 1>>]

\* for dx in range(-2, 3): for dy in range(-2, 3)
Offsets5 ==
  [i \in 1..25 |-> <<((i - 1) \div 5) - 2, ((i - 1) % 5) - 2>>]

Shift(c, d) == <<c[1] + d[1], c[2] + d[2]>>

Abs(n) == IF n < 0 THEN -n ELSE n

Chebyshev(a, b) == Max(Abs(a[1] - b[1]), Abs(a[2] - b[2]))

\* ------------------------------------------------------------ state
VARIABLES
  difficulty,        \* Minesweeper.difficulty
  grid,              \* grid[<<x,y>>]: -1 a mine, else the neighbour count
  revealed,          \* cells with revealed[y][x]
  flagged,           \* cells with flagged[y][x]
  game_over, win, first_click,
  start_time,        \* None or the time of the first reveal
  elapsed_time,      \* whole seconds, set by draw
  mines_left,
  combo, max_combo, last_reveal_time,
  active,            \* PowerUp.active per power-up
  pu_start_time,     \* PowerUp.start_time per power-up
  frozen_time,       \* TimeFreezeePowerUp.frozen_time
  power_up_charges,
  misplaced_flags,   \* the list, in order
  current_theme, themes_tried,
  unlocked,          \* names of the achievements with unlocked = True
  high_scores,
  now,               \* time.time()
  last,              \* history: what the last event did (see NoEvent)
  error              \* "none", or the exception that ended the program

vars ==
  <<difficulty, grid, revealed, flagged, game_over, win, first_click,
    start_time, elapsed_time, mines_left, combo, max_combo,
    last_reveal_time, active, pu_start_time, frozen_time, power_up_charges,
    misplaced_flags, current_theme, themes_tried, unlocked, high_scores,
    now, last, error>>

GRID_SIZE == DifficultyValue[difficulty][1]
MINES == DifficultyValue[difficulty][2]

Mines(g) == {c \in DOMAIN g : g[c] = -1}

\* The history of the last event: placed_at is the cell place_mines was
\* called with (first_x, first_y), area_at the cell RevealAreaPowerUp.activate
\* was called with (x, y); NoCell when the event made no such call.
NoCell == <<-1, -1>>
NoEvent == [placed_at |-> NoCell, area_at |-> NoCell]

\* ------------------------------------------------------------ reset_game
EmptyGrid(N) == [c \in Cells(N) |-> 0]

reset_game_keeping_combo(d) ==
  /\ grid' = EmptyGrid(DifficultyValue[d][1])
  /\ revealed' = {}
  /\ flagged' = {}
  /\ game_over' = FALSE
  /\ win' = FALSE
  /\ first_click' = TRUE
  /\ start_time' = None
  /\ elapsed_time' = 0
  /\ mines_left' = DifficultyValue[d][2]
  /\ combo' = 0
  /\ max_combo' = max_combo
  /\ last_reveal_time' = 0

\* reset_game, for the difficulty d just set by update_grid_size
reset_game(d) ==
  /\ grid' = EmptyGrid(DifficultyValue[d][1])
  /\ revealed' = {}
  /\ flagged' = {}
  /\ game_over' = FALSE
  /\ win' = FALSE
  /\ first_click' = TRUE
  /\ start_time' = None
  /\ elapsed_time' = 0
  /\ mines_left' = DifficultyValue[d][2]
  /\ combo' = 0
  /\ max_combo' = 0
  /\ last_reveal_time' = 0

\* ------------------------------------------------------------ __init__
Init ==
  /\ difficulty = "MEDIUM"
  /\ grid = EmptyGrid(DifficultyValue["MEDIUM"][1])
  /\ revealed = {}
  /\ flagged = {}
  /\ game_over = FALSE
  /\ win = FALSE
  /\ first_click = TRUE
  /\ start_time = None
  /\ elapsed_time = 0
  /\ mines_left = DifficultyValue["MEDIUM"][2]
  /\ combo = 0
  /\ max_combo = 0
  /\ last_reveal_time = 0
  /\ active = [k \in PowerUpNames |-> FALSE]
  /\ pu_start_time = [k \in PowerUpNames |-> None]
  /\ frozen_time = 0
  /\ power_up_charges = [k \in PowerUpNames |-> 3]
  /\ misplaced_flags = <<>>
  /\ current_theme = 0
  /\ themes_tried = {}
  /\ unlocked = {}
  /\ high_scores = [d \in Difficulties |-> Inf]
  /\ now = Epoch
  /\ last = NoEvent
  /\ error = "none"

\* ------------------------------------------------------------ place_mines
\* positions: the cells a mine may go to on the first click at f
CandidatesNear(N, f) ==
  {c \in Cells(N) : Abs(c[1] - f[1]) >= 1 \/ Abs(c[2] - f[2]) >= 1}

Candidates(N, f) ==
  {c \in Cells(N) : Abs(c[1] - f[1]) > 1 \/ Abs(c[2] - f[2]) > 1}

\* the inner loops of place_mines for one mine m
PlaceOne(g, N, m) ==
  LET g1 == [g EXCEPT ![m] = -1]
  IN [c \in DOMAIN g |->
        IF Chebyshev(c, m) <= 1 /\ g1[c] # -1 THEN g1[c] + 1 ELSE g1[c]]

\* the outer loop of place_mines over mine_positions, a sequence
RECURSIVE PlaceAll(_, _, _)
PlaceAll(g, N, ms) ==
  IF ms = <<>> THEN g ELSE PlaceAll(PlaceOne(g, N, Head(ms)), N, Tail(ms))

\* a set as a sequence, in x-major order (one order random.sample may give)
RECURSIVE SeqOf(_)
SeqOf(S) ==
  IF S = {} THEN <<>>
  ELSE LET m == CHOOSE c \in S :
                  \A o \in S : c[1] < o[1] \/ (c[1] = o[1] /\ c[2] <= o[2])
       IN <<m>> \o SeqOf(S \ {m})

place_mines(g, N, sample) == PlaceAll(g, N, SeqOf(sample))

\* x-major order on cells
Before(c, d) == c[1] < d[1] \/ (c[1] = d[1] /\ c[2] < d[2])

\* the subsets of S with k cells: what random.sample(positions, k) may pick
RECURSIVE KSubsets(_, _)
KSubsets(S, k) ==
  IF k = 0 THEN {{}}
  ELSE UNION {{T \cup {c} : T \in KSubsets({d \in S : Before(c, d)}, k - 1)} :
                c \in S}

\* the first n cells of S in the order of the list positions (x-major)
Prefix(S, n) == {c \in S : Cardinality({d \in S : Before(d, c)}) < n}

\* the samples the model lets random.sample(positions, M) return on a first
\* click at f: the M-subsets of the first M + SampleSlack positions
Samples(N, f, M) == KSubsets(Prefix(Candidates(N, f), M + SampleSlack), M)

\* ------------------------------------------------------------ reveal_cell
\* the part of the game reveal_cell writes
Board ==
  [revealed |-> revealed, combo |-> combo, max_combo |-> max_combo,
   last_reveal_time |-> last_reveal_time]

ComboFastInclusive(t, lr) == t - lr <= TicksPerSecond

\* current_time - self.last_reveal_time < 1.0
ComboFast(t, lr) == t - lr < TicksPerSecond

SkippedUnlessFlagged(b, fl, c) == ~InGrid(GRID_SIZE, c) \/ c \in b.revealed

\* the cells reveal_cell returns on at once: out of the grid, revealed, flagged
Skipped(b, fl, c) == ~InGrid(GRID_SIZE, c) \/ c \in b.revealed \/ c \in fl

RECURSIVE reveal_cell(_, _, _, _)
RECURSIVE reveal_around(_, _, _, _)
reveal_cell(b, g, fl, c) ==
  IF Skipped(b, fl, c) THEN b
  ELSE LET fast == ComboFast(now, b.last_reveal_time)
           cmb == IF fast THEN b.combo + 1 ELSE 1
           b1 == [revealed |-> b.revealed \cup {c},
                  combo |-> cmb,
                  max_combo |-> IF fast THEN Max(b.max_combo, cmb)
                                ELSE b.max_combo,
                  last_reveal_time |-> now]
       IN IF g[c] = 0 THEN reveal_around(b1, g, fl, c) ELSE b1

reveal_orthogonal(b, g, fl, c) ==
  LET b1 == reveal_cell(b, g, fl, Shift(c, Offsets3[2]))
      b2 == reveal_cell(b1, g, fl, Shift(c, Offsets3[4]))
      b3 == reveal_cell(b2, g, fl, Shift(c, Offsets3[6]))
      b4 == reveal_cell(b3, g, fl, Shift(c, Offsets3[8]))
  IN <<b1, b2, b3, b4>>[4]

\* for dx in [-1, 0, 1]: for dy in [-1, 0, 1]: self.reveal_cell(x + dx, y + dy)
\* (the nine calls in order; the tuple has them evaluated first to last)
reveal_around(b, g, fl, c) ==
  LET b1 == reveal_cell(b, g, fl, Shift(c, Offsets3[1]))
      b2 == reveal_cell(b1, g, fl, Shift(c, Offsets3[2]))
      b3 == reveal_cell(b2, g, fl, Shift(c, Offsets3[3]))
      b4 == reveal_cell(b3, g, fl, Shift(c, Offsets3[4]))
      b5 == reveal_cell(b4, g, fl, Shift(c, Offsets3[5]))
      b6 == reveal_cell(b5, g, fl, Shift(c, Offsets3[6]))
      b7 == reveal_cell(b6, g, fl, Shift(c, Offsets3[7]))
      b8 == reveal_cell(b7, g, fl, Shift(c, Offsets3[8]))
      b9 == reveal_cell(b8, g, fl, Shift(c, Offsets3[9]))
  IN <<b1, b2, b3, b4, b5, b6, b7, b8, b9>>[9]

\* ------------------------------------------------------------ power-ups
AreaOffsetsNarrow == [i \in 1..25 |-> Offsets3[((i - 1) % 9) + 1]]

\* the offsets RevealAreaPowerUp.activate walks
AreaOffsets == Offsets5

\* RevealAreaPowerUp.activate, its loops from the i-th offset on
RECURSIVE RevealArea(_, _, _, _, _)
RevealArea(b, g, fl, c, i) ==
  IF i > Len(AreaOffsets) THEN b
  ELSE LET n == Shift(c, AreaOffsets[i])
           b1 == IF InGrid(GRID_SIZE, n) /\ n \notin b.revealed /\ g[n] # -1
                 THEN reveal_cell(b, g, fl, n) ELSE b
       IN RevealArea(b1, g, fl, c, i + 1)

ActivatedUnguarded(keys, charges) ==
  IF 1 \in keys THEN "reveal"
  ELSE IF 2 \in keys THEN "freeze"
  ELSE IF 3 \in keys THEN "safety"
  ELSE "none"

\* the power-up handle_click activates: the if / elif chain on the keys
Activated(keys, charges) ==
  IF 1 \in keys /\ charges["reveal"] > 0 THEN "reveal"
  ELSE IF 2 \in keys /\ charges["freeze"] > 0 THEN "freeze"
  ELSE IF 3 \in keys /\ charges["safety"] > 0 THEN "safety"
  ELSE "none"

\* PowerUp.is_expired; no code path of the program calls it (update is
\* never polled)
is_expired(k) ==
  IF ~active[k] \/ Duration[k] = 0 THEN FALSE
  ELSE now - pu_start_time[k] > Duration[k]

\* ------------------------------------------------------------ chord_reveal
FlagCountOrthogonal(fl, c) ==
  Cardinality({i \in {2, 4, 5, 6, 8} : InGrid(GRID_SIZE, Shift(c, Offsets3[i]))
                                       /\ Shift(c, Offsets3[i]) \in fl})

\* the number of flagged in-grid cells among the nine around c
FlagCount(fl, c) ==
  Cardinality({i \in 1..9 : InGrid(GRID_SIZE, Shift(c, Offsets3[i]))
                            /\ Shift(c, Offsets3[i]) \in fl})

\* the second loop of chord_reveal from the i-th offset on; hit: a mine was
\* found and the loop returned
RECURSIVE ChordLoop(_, _, _, _, _)
ChordLoop(b, g, fl, c, i) ==
  IF i > 9 THEN [b |-> b, hit |-> FALSE]
  ELSE LET n == Shift(c, Offsets3[i])
       IN IF InGrid(GRID_SIZE, n) /\ n \notin fl /\ n \notin b.revealed
          THEN IF g[n] = -1 THEN [b |-> b, hit |-> TRUE]
               ELSE ChordLoop(reveal_cell(b, g, fl, n), g, fl, c, i + 1)
          ELSE ChordLoop(b, g, fl, c, i + 1)

chord_reveal_uncounted(b, g, fl, c) ==
  IF c \notin b.revealed \/ g[c] <= 0
  THEN [b |-> b, hit |-> FALSE, ret |-> FALSE]
  ELSE LET r == ChordLoop(b, g, fl, c, 1)
       IN [b |-> r.b, hit |-> r.hit, ret |-> TRUE]

\* chord_reveal: ret is its return value, hit whether it set game_over
chord_reveal(b, g, fl, c) ==
  IF c \notin b.revealed \/ g[c] <= 0
  THEN [b |-> b, hit |-> FALSE, ret |-> FALSE]
  ELSE IF FlagCount(fl, c) = g[c]
       THEN LET r == ChordLoop(b, g, fl, c, 1)
            IN [b |-> r.b, hit |-> r.hit, ret |-> TRUE]
       ELSE [b |-> b, hit |-> FALSE, ret |-> FALSE]

\* ------------------------------------------------------------ check_win
\* unrevealed == self.MINES
WinReached(rev) == GRID_SIZE * GRID_SIZE - Cardinality(rev) = MINES

\* min(self.high_scores[self.difficulty], self.elapsed_time)
BestScore(hs, e) == IF hs = Inf THEN e ELSE Min(hs, e)

\* check_win on the revealed set rev: the new win and high_scores
check_win(rev) ==
  IF WinReached(rev)
  THEN [win |-> TRUE,
        high_scores |->
          IF elapsed_time > 0
          THEN [high_scores EXCEPT
                  ![difficulty] = BestScore(high_scores[difficulty], elapsed_time)]
          ELSE high_scores]
  ELSE [win |-> win, high_scores |-> high_scores]

\* ------------------------------------------------------------ handle_click
\* the program runs until an exception leaves run
Running == error = "none"

TerminalLossOnly == game_over

\* if self.game_over or self.win: return
Terminal == game_over \/ win

\* x, y = pos[0] // CELL_SIZE, (pos[1] - 100) // CELL_SIZE
CellOf(pos) == <<pos[1] \div CELL_SIZE, (pos[2] - 100) \div CELL_SIZE>>

\* self.mines_left += 1 if not was_flagged else -1
FlagDelta(was_flagged) == IF ~was_flagged THEN 1 ELSE -1

\* list.remove: the list without the first c
RECURSIVE RemoveFirst(_, _)
RemoveFirst(l, c) ==
  IF l = <<>> THEN <<>>
  ELSE IF Head(l) = c THEN Tail(l)
  ELSE <<Head(l)>> \o RemoveFirst(Tail(l), c)

InList(l, c) == \E i \in 1..Len(l) : l[i] = c

\* any(p.active for p in self.power_ups.values())
Suppressed(act) == \E k \in PowerUpNames : act[k]

\* the game after the power-up activation of handle_click at cell c
AfterPowerUp(c, keys) ==
  LET k == Activated(keys, power_up_charges)
  IN [b |-> IF k = "reveal" THEN RevealArea(Board, grid, flagged, c, 1)
            ELSE Board,
      active |-> IF k = "none" THEN active ELSE [active EXCEPT ![k] = TRUE],
      pu_start_time |->
        IF k \in {"freeze", "safety"}
        THEN [pu_start_time EXCEPT ![k] = now] ELSE pu_start_time,
      frozen_time |-> IF k = "freeze" THEN elapsed_time ELSE frozen_time,
      charges |->
        IF k = "none" THEN power_up_charges
        ELSE [power_up_charges EXCEPT ![k] = @ - 1]]

\* what the rest of handle_click keeps of the game, given the power-up
\* result p and the board b it leaves
Outcome(p, b, fl, g, ml, mf, over, w, hs, fc, st) ==
  [b |-> b, flagged |-> fl, grid |-> g, mines_left |-> ml,
   misplaced_flags |-> mf, game_over |-> over, win |-> w, high_scores |-> hs,
   first_click |-> fc, start_time |-> st,
   active |-> p.active, pu_start_time |-> p.pu_start_time,
   frozen_time |-> p.frozen_time, charges |-> p.charges]

RightClickListingAfterPlacement(p, c) ==
  IF c \in p.b.revealed
  THEN Outcome(p, p.b, flagged, grid, mines_left, misplaced_flags,
               game_over, win, high_scores, first_click, start_time)
  ELSE LET was_flagged == c \in flagged
           fl == IF was_flagged THEN flagged \ {c} ELSE flagged \cup {c}
           mf == IF grid[c] # -1 /\ ~was_flagged /\ ~first_click
                 THEN Append(misplaced_flags, c)
                 ELSE IF grid[c] # -1 /\ was_flagged
                      THEN RemoveFirst(misplaced_flags, c)
                      ELSE misplaced_flags
       IN Outcome(p, p.b, fl, grid, mines_left + FlagDelta(was_flagged), mf,
                  game_over, win, high_scores, first_click, start_time)

\* if right_click: ... return
RightClick(p, c) ==
  IF c \in p.b.revealed
  THEN Outcome(p, p.b, flagged, grid, mines_left, misplaced_flags,
               game_over, win, high_scores, first_click, start_time)
  ELSE LET was_flagged == c \in flagged
           fl == IF was_flagged THEN flagged \ {c} ELSE flagged \cup {c}
           mf == IF grid[c] # -1 /\ ~was_flagged
                 THEN Append(misplaced_flags, c)
                 ELSE IF grid[c] # -1 /\ was_flagged
                      THEN RemoveFirst(misplaced_flags, c)
                      ELSE misplaced_flags
       IN Outcome(p, p.b, fl, grid, mines_left + FlagDelta(was_flagged), mf,
                  game_over, win, high_scores, first_click, start_time)

\* the left click from "if self.first_click" on, with the grid g in force
\* (after place_mines when this is the first click)
Reveal(p, c, g, st) ==
  IF g[c] = -1
  THEN Outcome(p, p.b, flagged, g, mines_left, misplaced_flags,
               ~Suppressed(p.active), win, high_scores, FALSE, st)
  ELSE LET b == reveal_cell(p.b, g, flagged, c)
           w == check_win(b.revealed)
       IN Outcome(p, b, flagged, g, mines_left, misplaced_flags,
                  game_over, w.win, w.high_scores, FALSE, st)

\* the left click: the flagged return, the chord, then the reveal;
\* sample is what random.sample returns when this is the first click
LeftClick(p, c, sample) ==
  IF c \in flagged
  THEN Outcome(p, p.b, flagged, grid, mines_left, misplaced_flags,
               game_over, win, high_scores, first_click, start_time)
  ELSE LET ch == IF c \in p.b.revealed /\ grid[c] > 0
                 THEN chord_reveal(p.b, grid, flagged, c)
                 ELSE [b |-> p.b, hit |-> FALSE, ret |-> FALSE]
       IN IF ch.ret
          THEN LET w == check_win(ch.b.revealed)
               IN Outcome(p, ch.b, flagged, grid, mines_left, misplaced_flags,
                          ch.hit, w.win, w.high_scores, first_click,
                          start_time)
          ELSE IF first_click
               THEN Reveal(p, c, place_mines(grid, GRID_SIZE, sample), now)
               ELSE Reveal(p, c, grid, start_time)

\* whether this click runs place_mines
Places(p, c, right_click) ==
  /\ ~right_click
  /\ c \notin flagged
  /\ first_click
  /\ ~(c \in p.b.revealed /\ grid[c] > 0)

\* the removal at line 422 raises ValueError: the cell is not in the list
RemoveRaises(p, c, right_click) ==
  /\ right_click
  /\ c \notin p.b.revealed
  /\ c \in flagged
  /\ grid[c] # -1
  /\ ~InList(misplaced_flags, c)

Assign(o) ==
  /\ revealed' = o.b.revealed
  /\ combo' = o.b.combo
  /\ max_combo' = o.b.max_combo
  /\ last_reveal_time' = o.b.last_reveal_time
  /\ flagged' = o.flagged
  /\ grid' = o.grid
  /\ mines_left' = o.mines_left
  /\ misplaced_flags' = o.misplaced_flags
  /\ game_over' = o.game_over
  /\ win' = o.win
  /\ high_scores' = o.high_scores
  /\ first_click' = o.first_click
  /\ start_time' = o.start_time
  /\ active' = o.active
  /\ pu_start_time' = o.pu_start_time
  /\ frozen_time' = o.frozen_time
  /\ power_up_charges' = o.charges

\* a flag may be placed only while the flag bounds allow one more
FlagRoom(p, c, right_click) ==
  (right_click /\ c \notin p.b.revealed /\ c \notin flagged)
    => /\ Cardinality(flagged) < MaxFlags
       /\ grid[c] # -1 => Len(misplaced_flags) < MaxMisplaced

\* handle_click on a cell of the grid.  c, p and o name the cell, the game
\* after the power-up activation and the game at the return.
ClickCell(pos, right_click, keys) ==
  /\ Running
  /\ InGrid(GRID_SIZE, CellOf(pos))
  /\ IF Terminal
     THEN /\ UNCHANGED <<revealed, combo, max_combo, last_reveal_time,
                      flagged, grid, mines_left, misplaced_flags,
                      game_over, win, high_scores, first_click,
                      start_time, active, pu_start_time, frozen_time,
                      power_up_charges, error>>
          /\ last' = NoEvent
     ELSE \E c \in {CellOf(pos)} : \E p \in {AfterPowerUp(c, keys)} :
        /\ last' = [placed_at |-> IF Places(p, c, right_click) THEN c ELSE NoCell,
                    area_at |-> IF Activated(keys, power_up_charges) = "reveal"
                                THEN c ELSE NoCell]
        /\ IF right_click
           THEN /\ FlagRoom(p, c, right_click)
                /\ \E o \in {RightClick(p, c)} : Assign(o)
                /\ error' = IF RemoveRaises(p, c, right_click)
                            THEN "ValueError" ELSE error
           ELSE IF Places(p, c, right_click)
           THEN /\ \E sample \in Samples(GRID_SIZE, c, MINES) :
                     \E o \in {LeftClick(p, c, sample)} : Assign(o)
                /\ UNCHANGED error
           ELSE /\ \E o \in {LeftClick(p, c, {})} : Assign(o)
                /\ UNCHANGED error
  /\ UNCHANGED <<difficulty, elapsed_time, current_theme, themes_tried,
                 unlocked, now>>

\* the pixel ranges of the difficulty buttons, lines 380-392
ButtonAt(pos) ==
  IF pos[2] >= 10 /\ pos[2] <= 40
  THEN IF pos[1] >= 10 /\ pos[1] <= 90 THEN "EASY"
       ELSE IF pos[1] >= 100 /\ pos[1] <= 200 THEN "MEDIUM"
       ELSE IF pos[1] >= 210 /\ pos[1] <= 290 THEN "HARD"
       ELSE "none"
  ELSE IF pos[2] >= 50 /\ pos[2] <= 80 /\ pos[1] >= 10 /\ pos[1] <= 100
       THEN "theme"
       ELSE "none"

\* self.current_theme = (self.current_theme + 1) % len(self.themes); ...
cycle_theme ==
  /\ current_theme' = (current_theme + 1) % Cardinality(Themes)
  /\ themes_tried' = themes_tried \cup {(current_theme + 1) % Cardinality(Themes)}

\* handle_click outside the grid: the buttons of the top bar
ClickBar(pos) ==
  /\ Running
  /\ last' = NoEvent
  /\ ~InGrid(GRID_SIZE, CellOf(pos))
  /\ IF Terminal \/ ButtonAt(pos) = "none"
     THEN UNCHANGED <<difficulty, grid, revealed, flagged, game_over, win,
                      first_click, start_time, elapsed_time, mines_left,
                      combo, max_combo, last_reveal_time, current_theme,
                      themes_tried>>
     ELSE IF ButtonAt(pos) = "theme"
     THEN /\ cycle_theme
          /\ UNCHANGED <<difficulty, grid, revealed, flagged, game_over, win,
                         first_click, start_time, elapsed_time, mines_left,
                         combo, max_combo, last_reveal_time>>
     ELSE /\ difficulty' = ButtonAt(pos)
          /\ reset_game(ButtonAt(pos))
          /\ UNCHANGED <<current_theme, themes_tried>>
  /\ UNCHANGED <<active, pu_start_time, frozen_time, power_up_charges,
                 misplaced_flags, unlocked, high_scores, now, error>>

\* ------------------------------------------------------------ the run loop
\* event.key == pygame.K_r
KeyR ==
  /\ Running
  /\ last' = NoEvent
  /\ reset_game(difficulty)
  /\ UNCHANGED <<difficulty, active, pu_start_time, frozen_time,
                 power_up_charges, misplaced_flags, current_theme,
                 themes_tried, unlocked, high_scores, now, error>>

\* event.key == pygame.K_t
KeyT ==
  /\ Running
  /\ last' = NoEvent
  /\ cycle_theme
  /\ UNCHANGED <<difficulty, grid, revealed, flagged, game_over, win,
                 first_click, start_time, elapsed_time, mines_left, combo,
                 max_combo, last_reveal_time, active, pu_start_time,
                 frozen_time, power_up_charges, misplaced_flags, unlocked,
                 high_scores, now, error>>

\* AchievementManager.check_achievements: the names it unlocks.
\* theme_explorer is not among them: themes_tried (a set) == len(themes)
\* (an int) is False whatever the set holds.
check_achievements ==
  (IF win
   THEN {"first_win"}
        \cup (IF elapsed_time < 30 THEN {"speed_demon"} ELSE {})
        \cup (IF difficulty = "HARD" THEN {"hard_victory"} ELSE {})
        \cup (IF misplaced_flags = <<>> THEN {"perfectionist"} ELSE {})
   ELSE {})
  \cup (IF max_combo >= 10 THEN {"combo_master"} ELSE {})

\* draw: if self.start_time: self.elapsed_time = int(time.time() - start_time)
draw ==
  IF start_time # None THEN (now - start_time) \div TicksPerSecond
  ELSE elapsed_time

\* the end of one iteration of the loop of run: check_achievements, draw
Tick ==
  /\ Running
  /\ last' = NoEvent
  /\ unlocked' = unlocked \cup check_achievements
  /\ elapsed_time' = draw
  /\ UNCHANGED <<difficulty, grid, revealed, flagged, game_over, win,
                 first_click, start_time, mines_left, combo, max_combo,
                 last_reveal_time, active, pu_start_time, frozen_time,
                 power_up_charges, misplaced_flags, current_theme,
                 themes_tried, high_scores, now, error>>

\* the clock advances by d ticks between two events
Advance(d) ==
  /\ Running
  /\ last' = NoEvent
  /\ now + d <= Epoch + MaxTime
  /\ now' = now + d
  /\ UNCHANGED <<difficulty, grid, revealed, flagged, game_over, win,
                 first_click, start_time, elapsed_time, mines_left, combo,
                 max_combo, last_reveal_time, active, pu_start_time,
                 frozen_time, power_up_charges, misplaced_flags,
                 current_theme, themes_tried, unlocked, high_scores, error>>

\* the clock runs, with no event, until the duration of the active timed
\* power-up k has just passed
Wait(k) ==
  /\ Running
  /\ last' = NoEvent
  /\ active[k]
  /\ now - pu_start_time[k] <= Duration[k]
  /\ now' = pu_start_time[k] + Duration[k] + 1
  /\ UNCHANGED <<difficulty, grid, revealed, flagged, game_over, win,
                 first_click, start_time, elapsed_time, mines_left, combo,
                 max_combo, last_reveal_time, active, pu_start_time,
                 frozen_time, power_up_charges, misplaced_flags,
                 current_theme, themes_tried, unlocked, high_scores, error>>

\* ------------------------------------------------------------ save, load
SaveKeys == {"high_scores", "achievements", "power_up_charges", "themes_tried"}

\* list(self.themes_tried): the set as a list, in ascending order (one of
\* the orders list() may give)
RECURSIVE ListOf(_)
ListOf(S) ==
  IF S = {} THEN <<>>
  ELSE LET m == CHOOSE x \in S : \A y \in S : x <= y
       IN <<m>> \o ListOf(S \ {m})

\* set(save_data['themes_tried'])
SetOf(l) == {l[i] : i \in 1..Len(l)}

\* save_game: the save_data it dumps, from the persistent state given
save_game(hs, unl, ch, tt) ==
  [high_scores |-> [d \in Difficulties |-> hs[d]],
   achievements |-> [n \in AchievementNames |-> n \in unl],
   power_up_charges |-> ch,
   themes_tried |-> ListOf(tt)]

\* the save file: absent, or the JSON object data
FileOf(data) == [exists |-> TRUE, data |-> data]
NoFile == [exists |-> FALSE, data |-> [k \in {} |-> 0]]

LoadedAchievementsAll(ach) == DOMAIN ach

\* for name, unlocked in ...: if unlocked: achievements[name].unlock()
LoadedAchievements(ach) == {n \in DOMAIN ach : ach[n]}

\* load_game into a game just built: what it leaves of the defaults.  The
\* keys are read in order; the first missing one raises KeyError, which the
\* except FileNotFoundError clause does not catch.
load_game(file) ==
  LET d == file.data
      ok1 == file.exists /\ "high_scores" \in DOMAIN d
      ok2 == ok1 /\ "achievements" \in DOMAIN d
      ok3 == ok2 /\ "power_up_charges" \in DOMAIN d
      ok4 == ok3 /\ "themes_tried" \in DOMAIN d
  IN [high_scores |->
        [x \in Difficulties |->
           IF ok1 /\ x \in DOMAIN d.high_scores THEN d.high_scores[x] ELSE Inf],
      unlocked |-> IF ok2 THEN LoadedAchievements(d.achievements) ELSE {},
      power_up_charges |->
        IF ok3 THEN d.power_up_charges ELSE [k \in PowerUpNames |-> 3],
      themes_tried |-> IF ok4 THEN SetOf(d.themes_tried) ELSE {},
      error |-> IF file.exists /\ ~ok4 THEN "KeyError" ELSE "none"]

\* the state after __init__ with the save file given
InitFrom(file) ==
  /\ difficulty = "MEDIUM"
  /\ grid = EmptyGrid(DifficultyValue["MEDIUM"][1])
  /\ revealed = {}
  /\ flagged = {}
  /\ game_over = FALSE
  /\ win = FALSE
  /\ first_click = TRUE
  /\ start_time = None
  /\ elapsed_time = 0
  /\ mines_left = DifficultyValue["MEDIUM"][2]
  /\ combo = 0
  /\ max_combo = 0
  /\ last_reveal_time = 0
  /\ active = [k \in PowerUpNames |-> FALSE]
  /\ pu_start_time = [k \in PowerUpNames |-> None]
  /\ frozen_time = 0
  /\ misplaced_flags = <<>>
  /\ current_theme = 0
  /\ now = Epoch
  /\ last = NoEvent
  /\ \E l \in {load_game(file)} :
       /\ high_scores = l.high_scores
       /\ unlocked = l.unlocked
       /\ power_up_charges = l.power_up_charges
       /\ themes_tried = l.themes_tried
       /\ error = l.error

\* pygame.QUIT: save_game and the end of run; then the program is started
\* again and __init__ loads the file just written
Restart ==
  /\ Running
  /\ last' = NoEvent
  /\ difficulty' = "MEDIUM"
  /\ reset_game("MEDIUM")
  /\ active' = [k \in PowerUpNames |-> FALSE]
  /\ pu_start_time' = [k \in PowerUpNames |-> None]
  /\ frozen_time' = 0
  /\ misplaced_flags' = <<>>
  /\ current_theme' = 0
  /\ \E l \in {load_game(FileOf(save_game(high_scores, unlocked,
                                          power_up_charges, themes_tried)))} :
       /\ high_scores' = l.high_scores
       /\ unlocked' = l.unlocked
       /\ power_up_charges' = l.power_up_charges
       /\ themes_tried' = l.themes_tried
       /\ error' = l.error
  /\ UNCHANGED now

\* ------------------------------------------------------------ inputs
\* the centre of cell <<x, y>> on the screen
Centre(c) ==
  <<c[1] * CELL_SIZE + CELL_SIZE \div 2, c[2] * CELL_SIZE + CELL_SIZE \div 2 + 100>>

CellClicks == {Centre(c) : c \in Cells(ClickSpan)}

\* a point on each button of the top bar, and one beside them
BarClicks == {<<50, 25>>, <<150, 25>>, <<250, 25>>, <<50, 65>>, <<150, 65>>}

\* the sets of power-up keys held during a click that activates
PowerKeySets == {{1}, {2}, {3}, {1, 2}}

\* mouse clicks on the cells, left or right, with the keys of keysets held
Clicks(rights, keysets) ==
  \E pos \in CellClicks, rc \in rights, keys \in keysets :
    ClickCell(pos, rc, keys)

\* the board rules: fresh start, no power-up key held
Next ==
  \/ Clicks(BOOLEAN, {{}})
  \/ \E pos \in BarClicks : ClickBar(pos)
  \/ KeyR

Spec == Init /\ [][Next]_vars

\* the state after __init__ when load_game finds a save file of an earlier
\* run that left SavedCharges charges of each power-up
InitLoaded ==
  /\ power_up_charges = [k \in PowerUpNames |-> SavedCharges]
  /\ difficulty = "MEDIUM"
  /\ grid = EmptyGrid(DifficultyValue["MEDIUM"][1])
  /\ revealed = {}
  /\ flagged = {}
  /\ game_over = FALSE
  /\ win = FALSE
  /\ first_click = TRUE
  /\ start_time = None
  /\ elapsed_time = 0
  /\ mines_left = DifficultyValue["MEDIUM"][2]
  /\ combo = 0
  /\ max_combo = 0
  /\ last_reveal_time = 0
  /\ active = [k \in PowerUpNames |-> FALSE]
  /\ pu_start_time = [k \in PowerUpNames |-> None]
  /\ frozen_time = 0
  /\ misplaced_flags = <<>>
  /\ current_theme = 0
  /\ themes_tried = {}
  /\ unlocked = {}
  /\ high_scores = [d \in Difficulties |-> Inf]
  /\ now = Epoch
  /\ last = NoEvent
  /\ error = "none"

\* the board rules with the power-up keys held during left clicks
NextPower ==
  \/ Clicks(BOOLEAN, {{}})
  \/ Clicks({FALSE}, PowerKeySets)
  \/ KeyR

SpecPower == InitLoaded /\ [][NextPower]_vars

\* the timers: the clock, the frames of the run loop, left clicks, TimeFreeze
NextClock ==
  \/ Clicks({FALSE}, {{}, {2}})
  \/ KeyR
  \/ Tick
  \/ \E d \in 1..MaxStep : Advance(d)

SpecClock == Init /\ [][NextClock]_vars

\* the expiry of the timed power-ups: left clicks with TimeFreeze or
\* SafetyNet, the frames, the clock running past a duration
NextExpiry ==
  \/ Clicks({FALSE}, {{}, {2}, {3}})
  \/ Tick
  \/ \E k \in {"freeze", "safety"} : Wait(k)

SpecExpiry == InitLoaded /\ [][NextExpiry]_vars

\* the themes and the achievements: left clicks, the top bar, key T, frames
NextTheme ==
  \/ Clicks({FALSE}, {{}})
  \/ \E pos \in BarClicks : ClickBar(pos)
  \/ KeyT
  \/ Tick

SpecTheme == Init /\ [][NextTheme]_vars

\* a save file of an earlier run, as complete as it wrote it
SampleSave ==
  save_game([d \in Difficulties |-> IF d = "EASY" THEN 1 ELSE Inf],
            {"combo_master"}, [k \in PowerUpNames |-> SavedCharges], {1})

\* the save files the program may find: none, or SampleSave with any of its
\* keys missing
SaveFiles ==
  {NoFile} \cup {FileOf([k \in K |-> SampleSave[k]]) : K \in SUBSET SaveKeys}

InitSaved == \E file \in SaveFiles : InitFrom(file)

\* the persistent state: left clicks with SafetyNet, key T, the clock, the
\* frames, and the program saved, ended and started again
NextSaved ==
  \/ Clicks({FALSE}, {{}, {3}})
  \/ KeyT
  \/ Tick
  \/ Advance(MaxStep)
  \/ Restart

SpecSaved == InitSaved /\ [][NextSaved]_vars

\* the cells beside the corner cell <<0, 0>>
CornerRing == {<<0, 1>>, <<1, 0>>, <<1, 1>>}

\* the state after a click on the Easy button and a right click on each
\* cell beside the corner, before any reveal: every one of the flags is on
\* a cell of the all-zero grid, so each was appended to misplaced_flags and
\* took one from mines_left
InitFlagged ==
  /\ difficulty = "EASY"
  /\ grid = EmptyGrid(DifficultyValue["EASY"][1])
  /\ revealed = {}
  /\ flagged = CornerRing
  /\ game_over = FALSE
  /\ win = FALSE
  /\ first_click = TRUE
  /\ start_time = None
  /\ elapsed_time = 0
  /\ mines_left = DifficultyValue["EASY"][2] - Cardinality(CornerRing)
  /\ combo = 0
  /\ max_combo = 0
  /\ last_reveal_time = 0
  /\ active = [k \in PowerUpNames |-> FALSE]
  /\ pu_start_time = [k \in PowerUpNames |-> None]
  /\ frozen_time = 0
  /\ power_up_charges = [k \in PowerUpNames |-> 3]
  /\ misplaced_flags = <<<<0, 1>>, <<1, 0>>, <<1, 1>>>>
  /\ current_theme = 0
  /\ themes_tried = {}
  /\ unlocked = {}
  /\ high_scores = [d \in Difficulties |-> Inf]
  /\ now = Epoch
  /\ last = NoEvent
  /\ error = "none"

\* the board rules from a board with the flags already set, key 1 held
\* during some of the left clicks
NextFlagged ==
  \/ Clicks(BOOLEAN, {{}})
  \/ Clicks({FALSE}, {{1}})
  \/ KeyR

SpecFlagged == InitFlagged /\ [][NextFlagged]_vars

\* ============================================================ claims
\* C1: after the mine placement of the first reveal at cell f, on every
\* difficulty the board holds exactly MINES mines and none of them lies
\* within Chebyshev distance 1 of f.
PlacementIsSafe ==
  /\ first_click => Mines(grid) = {}
  /\ ~first_click => Cardinality(Mines(grid)) = MINES
  /\ last.placed_at # NoCell
       => /\ ~first_click
          /\ \A m \in Mines(grid) : Chebyshev(m, last.placed_at) > 1

\* mines were placed on the HARD board by a first click
PlacedOnHard ==
  /\ difficulty = "HARD"
  /\ last.placed_at # NoCell
  /\ Cardinality(Mines(grid)) = DifficultyValue["HARD"][2]
  /\ revealed # {}

\* C2: in every reachable state the win flag is set if and only if the
\* number of unrevealed cells equals the mine count.
WinIffUnrevealedIsMines ==
  win <=> (GRID_SIZE * GRID_SIZE - Cardinality(revealed) = MINES)

\* C3: once the session is Won or Lost, every step other than a reset
\* leaves the revealed set, the flagged set, mines_left and the terminal
\* flags unchanged.
TerminalIgnoresClicks ==
  [][(game_over \/ win)
       => \/ UNCHANGED <<revealed, flagged, mines_left, game_over, win>>
          \/ KeyR]_vars

\* a won session that still holds a flag
WonWithFlag == win /\ ~game_over /\ flagged # {}

\* C4: whenever SafetyNet is not active, a left click on an unflagged mine
\* cell of a running game ends the game as lost, whatever other power-up
\* was activated before.
DirectMineHitLoses ==
  [][\A pos \in CellClicks, keys \in PowerKeySets \cup {{}} :
       (/\ ~Terminal
        /\ grid[CellOf(pos)] = -1
        /\ CellOf(pos) \notin flagged
        /\ ~active'["safety"]
        /\ ClickCell(pos, FALSE, keys))
         => game_over']_vars

\* C5: while SafetyNet is active no step, direct reveal or chord, turns a
\* running game into a lost one.
NoLossUnderSafetyNet ==
  [][active["safety"] => ~(~game_over /\ game_over')]_vars

\* C6: in every reachable state mines_left is the mine count of the
\* difficulty minus the number of flagged cells.
MinesLeftCountsFlags == mines_left = MINES - Cardinality(flagged)

\* C7: for each power-up kind no step raises the charges or takes them
\* below 0, and while the charges are 0 no step, the clicks holding the key
\* of the kind among them, changes the charges, the active flag or the
\* activation time of the kind (nor the time TimeFreeze captured).
ChargesOnlySpent ==
  [][\A k \in PowerUpNames :
       /\ power_up_charges'[k] <= power_up_charges[k]
       /\ power_up_charges'[k] >= 0
       /\ power_up_charges[k] = 0
            => /\ power_up_charges'[k] = 0
               /\ active'[k] = active[k]
               /\ pu_start_time'[k] = pu_start_time[k]
               /\ k = "freeze" => frozen_time' = frozen_time]_vars

\* every charge is spent, the game is running with cells left to click
AllChargesSpent ==
  /\ \A k \in PowerUpNames : power_up_charges[k] = 0 /\ active[k]
  /\ ~Terminal
  /\ ~first_click
  /\ last = NoEvent

\* C8: a step that reveals k > 0 cells at time now sets the combo to 1 for
\* the first of them when the gap since the previous reveal is >= 1.0 s and
\* to the previous combo + 1 when it is < 1.0 s; each further cell of the
\* same step (gap 0) adds 1; the step records now as the last reveal time.
ComboFollowsGap ==
  [][LET k == Cardinality(revealed' \ revealed)
     IN (k > 0 /\ revealed \subseteq revealed')
          => /\ combo' = (IF now - last_reveal_time >= TicksPerSecond
                          THEN 1 ELSE combo + 1) + (k - 1)
             /\ last_reveal_time' = now]_vars

\* a combo built by reveals less than 1.0 s apart was reset to 1 by a reveal
\* 1.0 s or more after the last one
ComboResetAfterGap ==
  /\ combo = 1
  /\ max_combo >= 2
  /\ last_reveal_time = now
  /\ last_reveal_time - start_time >= TicksPerSecond

\* C9 (as stated): activating RevealArea at t leaves revealed every cell of
\* the grid within Chebyshev distance 2 of t that was unrevealed and is not
\* a mine, and reveals no mine of that area.
AreaRevealsEverySafeCell ==
  [][last'.area_at # NoCell
       => \A n \in Cells(GRID_SIZE) :
            (Chebyshev(n, last'.area_at) <= 2 /\ n \notin revealed)
              => IF grid[n] # -1 THEN n \in revealed' ELSE n \notin revealed']_vars

\* C9 (amended): activating RevealArea at t leaves revealed every cell of
\* the grid within Chebyshev distance 2 of t that was unrevealed, is not
\* flagged and is not a mine, and reveals no mine of that area.
AreaRevealsEveryUnflaggedSafeCell ==
  [][last'.area_at # NoCell
       => \A n \in Cells(GRID_SIZE) :
            (Chebyshev(n, last'.area_at) <= 2 /\ n \notin revealed)
              => /\ (grid[n] # -1 /\ n \notin flagged) => n \in revealed'
                 /\ grid[n] = -1 => n \notin revealed']_vars

\* RevealArea was just activated on a board whose mines were placed before,
\* and its area holds a hidden mine and a flagged cell without a mine
AreaWithFlagAndMine ==
  /\ last.area_at # NoCell
  /\ last.placed_at = NoCell
  /\ ~first_click
  /\ \E n \in flagged : /\ Chebyshev(n, last.area_at) <= 2
                        /\ grid[n] # -1
                        /\ n \notin revealed
  /\ \E m \in Mines(grid) : Chebyshev(m, last.area_at) <= 2 /\ m \notin revealed

\* C10: while TimeFreeze is active and within its 5.0 s, every frame of the
\* run loop leaves elapsed_time at the value captured at activation.
FreezePinsElapsedTime ==
  [][(/\ active["freeze"]
      /\ now - pu_start_time["freeze"] <= Duration["freeze"]
      /\ Tick)
       => elapsed_time' = frozen_time]_vars

\* C11: a frame of the run loop taken more than its duration after the
\* activation of SafetyNet (10.0 s) or TimeFreeze (5.0 s) leaves that
\* power-up inactive.
TimedPowerUpsExpire ==
  [][Tick => \A k \in {"freeze", "safety"} :
               (active[k] /\ now - pu_start_time[k] > Duration[k])
                 => ~active'[k]]_vars

\* C12: a reset leaves every power-up inactive and every charge count as it
\* was before the reset.
ResetClearsActive ==
  [][KeyR => /\ \A k \in PowerUpNames : ~active'[k]
             /\ power_up_charges' = power_up_charges]_vars

\* C13: in every reachable state no cell is both revealed and flagged.
NoCellRevealedAndFlagged == revealed \cap flagged = {}

\* after a RevealArea, a flagged cell lies next to a revealed cell of count 0:
\* the flood fill reached it and passed it by
FlagBesideRevealedZero ==
  /\ active["reveal"]
  /\ ~first_click
  /\ \E c \in flagged, n \in revealed : Chebyshev(c, n) = 1 /\ grid[n] = 0

\* C14: in every reachable state the misplaced-flags list holds exactly the
\* cells that are flagged and hold no mine.
MisplacedAreFlaggedSafeCells ==
  {misplaced_flags[i] : i \in 1..Len(misplaced_flags)}
    = {c \in flagged : grid[c] # -1}

\* the cells of the grid next to c
Neighbours(c) == {n \in Cells(GRID_SIZE) : Chebyshev(n, c) = 1}

\* a revealed cell whose count k > 0 equals the number of its flagged neighbours
Chordable(c) ==
  /\ c \in revealed
  /\ grid[c] > 0
  /\ Cardinality(Neighbours(c) \cap flagged) = grid[c]

\* C15 (as stated): on a revealed cell with count k > 0 and exactly k
\* adjacent flags, all on cells without a mine, chord_reveal reveals all the
\* other unflagged neighbours and returns true.
ChordWithFlagsOnSafeCellsRevealsAll ==
  \A c \in revealed :
    (Chordable(c) /\ \A n \in Neighbours(c) \cap flagged : grid[n] # -1)
      => LET r == chord_reveal(Board, grid, flagged, c)
         IN /\ r.ret
            /\ Neighbours(c) \ flagged \subseteq r.b.revealed

\* C15 (amended): on a revealed cell with count k > 0 and exactly k adjacent
\* flags chord_reveal returns true; when all the flags are on mines it
\* reveals all the other unflagged neighbours and loses nothing; when an
\* unflagged hidden neighbour is a mine it sets the loss flag and leaves
\* every mine hidden.
ChordRevealsOrLoses ==
  \A c \in revealed :
    Chordable(c)
      => LET r == chord_reveal(Board, grid, flagged, c)
             hidden == (Neighbours(c) \cap Mines(grid)) \ (flagged \cup revealed)
         IN /\ r.ret
            /\ (Neighbours(c) \cap flagged \subseteq Mines(grid))
                 => ~r.hit /\ Neighbours(c) \ flagged \subseteq r.b.revealed
            /\ hidden # {}
                 => r.hit /\ r.b.revealed \cap Mines(grid) = revealed \cap Mines(grid)

\* a revealed cell can be chorded with its flags on the mines and hidden
\* neighbours left to reveal
ChordableWithFlagsOnMines ==
  \E c \in revealed :
    /\ Chordable(c)
    /\ Neighbours(c) \cap flagged \subseteq Mines(grid)
    /\ Neighbours(c) \ (flagged \cup revealed) # {}

\* C16: chord_reveal on a cell that is unrevealed, has count 0, or whose
\* number of flagged neighbours differs from its count returns false, does
\* not set the loss flag and leaves the revealed set and the combo state as
\* they were (it never writes the flagged set).
ChordMismatchDoesNothing ==
  \A c \in Cells(GRID_SIZE) :
    (\/ c \notin revealed
     \/ grid[c] = 0
     \/ Cardinality(Neighbours(c) \cap flagged) # grid[c])
      => chord_reveal(Board, grid, flagged, c)
           = [b |-> Board, hit |-> FALSE, ret |-> FALSE]

\* a revealed cell of count 2 has one flagged neighbour and hidden ones
OneFlagBesideTwo ==
  \E c \in revealed :
    /\ grid[c] = 2
    /\ Cardinality(Neighbours(c) \cap flagged) = 1
    /\ Neighbours(c) \ (flagged \cup revealed) # {}

\* the cells a reveal started in R reaches: R, and step by step the hidden
\* unflagged cells next to a reached cell of count 0
RECURSIVE Fill(_)
Fill(R) ==
  LET more == {n \in Cells(GRID_SIZE) \ (R \cup flagged \cup revealed) :
                 \E z \in R : grid[z] = 0 /\ Chebyshev(n, z) = 1}
  IN IF more = {} THEN R ELSE Fill(R \cup more)

\* C17: reveal_cell started on a hidden unflagged cell of count 0 ends with
\* the revealed set grown by exactly the connected region of count-0 cells
\* and its border, flagged and revealed cells left out, each cell marked
\* once (the combo counts one reveal per cell).
FloodFillRevealsRegion ==
  \A c \in Cells(GRID_SIZE) \ (revealed \cup flagged) :
    grid[c] = 0
      => LET b == reveal_cell(Board, grid, flagged, c)
         IN /\ b.revealed = revealed \cup Fill({c})
            /\ b.combo = (IF ComboFast(now, last_reveal_time)
                          THEN combo + 1 ELSE 1) + Cardinality(Fill({c})) - 1
            /\ b.last_reveal_time = now

\* the mines are placed and a hidden unflagged cell of count 0 has a region
\* of several cells, a flagged cell beside it
RegionBesideFlag ==
  /\ ~first_click
  /\ \E c \in Cells(GRID_SIZE) \ (revealed \cup flagged) :
       /\ grid[c] = 0
       /\ Cardinality(Fill({c})) >= 4
       /\ \E f \in flagged : \E z \in Fill({c}) : Chebyshev(f, z) = 1

\* C18: a frame of the run loop taken when every theme has been visited
\* leaves the theme_explorer achievement unlocked.
ThemeExplorerUnlocks ==
  [][(Tick /\ Cardinality(themes_tried) = Cardinality(Themes))
       => "theme_explorer" \in unlocked']_vars

\* C19: loading a save file with some of its keys missing does not abort:
\* no KeyError ends the program.
LoadNeverAborts == error # "KeyError"

\* C20: saving the game and loading the file into a fresh game reproduces
\* the high scores, the unlocked achievements, the power-up charges and the
\* set of themes tried.
SaveLoadRoundTrip ==
  [][Restart => /\ high_scores' = high_scores
                /\ unlocked' = unlocked
                /\ power_up_charges' = power_up_charges
                /\ themes_tried' = themes_tried
                /\ error' = "none"]_vars

\* a fresh game holds what an earlier game of this run won: a high score, the
\* first_win achievement, a spent charge and tried themes
FreshGameWithWonState ==
  /\ first_click
  /\ revealed = {}
  /\ "first_win" \in unlocked
  /\ high_scores["MEDIUM"] # Inf
  /\ themes_tried # {}
  /\ \E k \in PowerUpNames : active[k] = FALSE /\ power_up_charges[k] = 0

\* C21: no step changes the charges or the activation time of a power-up
\* that is already active (nor the time an active TimeFreeze captured): an
\* activation of an active power-up is a no-op.
ActivationIsIdempotent ==
  [][\A k \in PowerUpNames :
       active[k] => /\ power_up_charges'[k] = power_up_charges[k]
                    /\ pu_start_time'[k] = pu_start_time[k]
                    /\ k = "freeze" => frozen_time' = frozen_time]_vars

ResetGivesFreshGame ==
  [][KeyR => /\ revealed' = {}
             /\ flagged' = {}
             /\ Mines(grid') = {}
             /\ DOMAIN grid' = Cells(GRID_SIZE)
             /\ first_click'
             /\ ~win'
             /\ ~game_over'
             /\ mines_left' = MINES
             /\ combo' = 0
             /\ max_combo' = 0]_vars

\* a fresh board after a game in which a flag was placed: the flags are
\* gone, the list of misplaced flags is what tells
FreshBoardAfterFlaggedGame ==
  /\ first_click
  /\ revealed = {}
  /\ flagged = {}
  /\ mines_left = MINES
  /\ misplaced_flags # <<>>

\* C24: in every reachable state no revealed cell holds a mine.
NoMineRevealed == revealed \cap Mines(grid) = {}

FlagRemovalFindsCell ==
  /\ error # "ValueError"
  /\ \A c \in flagged : grid[c] # -1 => InList(misplaced_flags, c)

\* a flag placed before the mines were placed stands on a cell that got no
\* mine, beside revealed cells: its removal is the next right click
EarlyFlagOnSafeCell ==
  /\ ~first_click
  /\ ~Terminal
  /\ last.placed_at # NoCell
  /\ \E c \in flagged : grid[c] # -1 /\ InList(misplaced_flags, c)
====
